---- MODULE Spec2Model ----
(***************************************************************************)
(* Model of Streamlit_app.py: the "Logistics Route & Carbon Tracker".      *)
(*                                                                         *)
(* The script is a linear pipeline run when the "Get Routes" button is     *)
(* pressed: geocode(origin), geocode(destination), fetch_routes, metrics,  *)
(* map, display.  The two services are the environment: every response is  *)
(* a nondeterministic choice.  Python sequences are 0-based, TLA+          *)
(* sequences 1-based: routes[0] of the source is routes[1] here.           *)
(*                                                                         *)
(* Python floats are IEEE-754 doubles.  The arithmetic of km, hmin and     *)
(* calc_metrics is modelled bit-exactly: a positive double is a record     *)
(* [m, e] with m its 53 significand bits (most significant first) and      *)
(* value(m) * 2^e its value; zero has the empty significand.               *)
(***************************************************************************)
EXTENDS Integers, Sequences, FiniteSets, TLC

------------------------------------------------------------------------------
(* Program constants *)

CO2_PER_KM == 150
COST_PER_KM == 8
HEADERS == ("User-Agent" :> "streamlit-carbon-demo")

\* requests.get(url, timeout=20) passes no headers argument
NoHeaders == [h \in {} |-> ""]

\* significand width of a Python float
MantBits == 53

------------------------------------------------------------------------------
(* Bounds of the model *)

\* longest result list the geocoding service returns
MaxResults == 1
\* longest routes list the routing service returns
MaxRoutes == 2
\* largest argument of a stand-alone hmin call
MaxSeconds == 7300
\* largest argument (hundredths of a km) of a stand-alone calc_metrics call
MaxCentiKm == 1100

------------------------------------------------------------------------------
(* IEEE-754 double arithmetic on bit sequences *)

\* width of the limbs the exact product is computed in
LimbBits == 15

\* number of bits of n (0 for n = 0)
BitLen(n) == CHOOSE l \in 0..30 : n < 2 ^ l /\ (l = 0 \/ n >= 2 ^ (l - 1))

\* the w low-order bits of n, most significant first
PadBits(n, w) == [i \in 1..w |-> (n \div (2 ^ (w - i))) % 2]

BitsOfNat(n) == PadBits(n, BitLen(n))

RECURSIVE NatOfBits(_)
NatOfBits(b) ==
    IF Len(b) = 0 THEN 0
    ELSE IF Len(b) = 1 THEN b[1]
    ELSE LET h == Len(b) \div 2
         IN  NatOfBits(SubSeq(b, 1, h)) * (2 ^ (Len(b) - h))
               + NatOfBits(SubSeq(b, h + 1, Len(b)))

AllZero(b) == \A i \in 1..Len(b) : b[i] = 0

\* b without its leading zero bits
StripZeros(b) ==
    IF AllZero(b) THEN <<>>
    ELSE SubSeq(b, CHOOSE f \in 1..Len(b) : b[f] = 1 /\ AllZero(SubSeq(b, 1, f - 1)), Len(b))

\* b + 1 on a bit sequence; one bit longer when b is all ones
IncBits(b) ==
    IF \A i \in 1..Len(b) : b[i] = 1 THEN <<1>> \o [i \in 1..Len(b) |-> 0]
    ELSE LET p == CHOOSE q \in 1..Len(b) :
                      b[q] = 0 /\ \A i \in (q + 1)..Len(b) : b[i] = 1
         IN  [i \in 1..Len(b) |-> IF i < p THEN b[i] ELSE IF i = p THEN 1 ELSE 0]

\* discarded low-order bits against half a unit in the last place:
\* -1 below, 0 exactly half, 1 above
HalfCmp(tail) ==
    IF tail = <<>> \/ tail[1] = 0 THEN -1
    ELSE IF AllZero(SubSeq(tail, 2, Len(tail))) THEN 0
    ELSE 1

\* round-to-nearest, ties-to-even, of the kept bits
RoundEven(kept, cmp) ==
    IF cmp = 1 \/ (cmp = 0 /\ kept # <<>> /\ kept[Len(kept)] = 1)
    THEN IncBits(kept)
    ELSE kept

\* the double with significand bits b (MantBits + 1 of them after a carry)
Renorm(b, e) ==
    IF Len(b) > MantBits THEN [m |-> SubSeq(b, 1, MantBits), e |-> e + 1]
    ELSE [m |-> b, e |-> e]

\* an exact value bits * 2^e rounded to a double
RoundToDouble(bits, e) ==
    IF Len(bits) <= MantBits THEN [m |-> bits, e |-> e]
    ELSE LET kept == SubSeq(bits, 1, MantBits)
             tail == SubSeq(bits, MantBits + 1, Len(bits))
         IN  Renorm(RoundEven(kept, HalfCmp(tail)), e + Len(tail))

\* 2^j mod d, for j < 80
Pow2Mod(j, d) ==
    LET P == (2 ^ 20) % d
        a == j \div 20
        t == IF a = 0 THEN 1 % d
             ELSE IF a = 1 THEN P
             ELSE IF a = 2 THEN (P * P) % d
             ELSE (((P * P) % d) * P) % d
    IN  (t * ((2 ^ (j % 20)) % d)) % d

\* the double nearest to n/d (n >= 0, 0 < d <= 3600): Python's n / d on
\* exactly represented operands, and float() of n/d written in decimal
FloatDiv(n, d) ==
    IF n = 0 THEN [m |-> <<>>, e |-> 0]
    ELSE LET ip     == n \div d
             r0     == n % d
             \* zero bits between the binary point and the first one bit
             s      == IF ip > 0 THEN 0
                       ELSE CHOOSE z \in 0..20 :
                              r0 * 2 ^ (z + 1) >= d /\ (z = 0 \/ r0 * 2 ^ z < d)
             \* fraction bits that make up MantBits significant bits
             F      == IF ip > 0 THEN MantBits - BitLen(ip) ELSE s + MantBits
             rem(j) == (r0 * Pow2Mod(j, d)) % d
             fb(i)  == IF 2 * rem(i - 1) >= d THEN 1 ELSE 0
             bits   == IF ip > 0 THEN BitsOfNat(ip) \o [i \in 1..F |-> fb(i)]
                       ELSE [i \in 1..MantBits |-> fb(s + i)]
             cmp    == IF 2 * rem(F) > d THEN 1 ELSE IF 2 * rem(F) = d THEN 0 ELSE -1
         IN  Renorm(RoundEven(bits, cmp), -F)

\* limb j (0 the least significant) of a bit sequence
Limb(bits, j) ==
    LET hi == Len(bits) - LimbBits * j
        lo == IF hi - LimbBits + 1 < 1 THEN 1 ELSE hi - LimbBits + 1
    IN  NatOfBits(SubSeq(bits, lo, hi))

RECURSIVE MulLimbs(_, _, _, _)
\* bits * k from limb j upwards, carry coming from the limbs below
MulLimbs(bits, k, j, carry) ==
    IF LimbBits * j >= Len(bits) THEN BitsOfNat(carry)
    ELSE LET v == Limb(bits, j) * k + carry
         IN  MulLimbs(bits, k, j + 1, v \div (2 ^ LimbBits))
               \o PadBits(v % (2 ^ LimbBits), LimbBits)

\* exact product of a bit sequence and a natural number k <= 1000
MulBits(bits, k) == StripZeros(MulLimbs(bits, k, 0, 0))

\* Python's x * k for a float x and a small int k
FloatMul(x, k) == RoundToDouble(MulBits(x.m, k), x.e)

\* Python's int(x) for x >= 0: truncation
FloatInt(x) ==
    IF Len(x.m) + x.e <= 0 THEN 0
    ELSE IF x.e >= 0 THEN NatOfBits(x.m) * (2 ^ x.e)
    ELSE NatOfBits(SubSeq(x.m, 1, Len(x.m) + x.e))

\* the exact value bits * 2^e (e <= 0) rounded half-to-even to an integer
RoundBitsToInt(bits, e) ==
    IF e >= 0 THEN NatOfBits(bits) * (2 ^ e)
    ELSE IF Len(bits) + e < 0 THEN 0
    ELSE LET kept == SubSeq(bits, 1, Len(bits) + e)
             tail == SubSeq(bits, Len(bits) + e + 1, Len(bits))
         IN  NatOfBits(RoundEven(kept, HalfCmp(tail)))

\* Python's round(x) for x >= 0
FloatRound(x) == RoundBitsToInt(x.m, x.e)

\* Python's round(x, 2) for x >= 0, as the number c of hundredths: the
\* result is the double nearest to c/100
FloatRound2(x) == RoundBitsToInt(MulBits(x.m, 100), x.e)

------------------------------------------------------------------------------
(* Metrics calculator.  A float that holds a distance in km is always the  *)
(* result of round(x, 2), i.e. the double nearest to c/100 for a natural   *)
(* number c; it is represented by c.  Distances in metres and durations in *)
(* seconds are floats with integer values.                                 *)

\* the double the float distance_km = c/100 stands for
KmFloat(c) == FloatDiv(c, 100)

\* str() of the float c/100: shortest decimal that reads back as it
FloatRepr(c) ==
    LET f == c % 100
    IN  ToString(c \div 100) \o "." \o
          (IF f % 10 = 0 THEN ToString(f \div 10)
           ELSE IF f < 10 THEN "0" \o ToString(f)
           ELSE ToString(f))

\* format spec ":+" on an int
SignedStr(n) == IF n >= 0 THEN "+" \o ToString(n) ELSE ToString(n)

km(meters) == FloatRound2(FloatDiv(meters, 1000))

\* hmin carrying sixty minutes into the hour
hmin_carry(seconds) ==
    LET h == seconds \div 3600
        m == FloatRound(FloatDiv(seconds % 3600, 60))
    IN  IF m = 60 THEN ToString(h + 1) \o " h 0 min"
        ELSE ToString(h) \o " h " \o ToString(m) \o " min"

\* hmin rounding half a minute upwards
hmin_halfup(seconds) ==
    LET h == seconds \div 3600
        m == ((seconds % 3600) + 30) \div 60
    IN  ToString(h) \o " h " \o ToString(m) \o " min"

hmin(seconds) ==
    LET h == seconds \div 3600
        m == FloatRound(FloatDiv(seconds % 3600, 60))
    IN  ToString(h) \o " h " \o ToString(m) \o " min"

calc_metrics(distance_km) ==
    LET co2  == FloatInt(FloatMul(KmFloat(distance_km), CO2_PER_KM))
        cost == FloatInt(FloatMul(KmFloat(distance_km), COST_PER_KM))
    IN  <<co2, cost>>

------------------------------------------------------------------------------
(* The two services: what a call can come back with *)

\* a function call either returns a value or raises an exception
Return(v) == [raised |-> FALSE, kind |-> "", msg |-> "", value |-> v]
Raise(k, m) == [raised |-> TRUE, kind |-> k, msg |-> m, value |-> <<>>]

\* a local of the script that holds no route yet
NoneRoute == [distance |-> 0, duration |-> 0, geometry |-> "unbound"]

\* the defaults of the two inputs, and the texts a user types into them
DefaultOrigin == "Uttam Nagar, Delhi"
DefaultDestination == "Dwarka Sector 21, Delhi"
Places == {DefaultOrigin, DefaultDestination}

\* search results, lat/lon in hundredths of a degree
GeoResults == {[lat |-> 2860, lon |-> 7705], [lat |-> 2859, lon |-> 7704]}

\* routes the routing service can list
RouteCatalog ==
    { [distance |-> 12000, duration |-> 1500, geometry |-> "gA"],
      [distance |-> 15000, duration |-> 1800, geometry |-> "gB"],
      [distance |-> 820,   duration |-> 90,   geometry |-> "gC"] }

SeqsUpTo(S, n) == UNION {[1..k -> S] : k \in 0..n}

\* requests.get(...).json() raising: timeout, connection error, bad body
TransportErrors ==
    { [status |-> "raise", msg |-> "Read timed out.", js |-> <<>>],
      [status |-> "raise", msg |-> "Expecting value: line 1 column 1 (char 0)", js |-> <<>>] }

GeoReplies ==
    TransportErrors \cup
    {[status |-> "ok", msg |-> "", js |-> l] : l \in SeqsUpTo(GeoResults, MaxResults)}

\* the routing service's JSON object, with or without a routes list
RouteReplies ==
    TransportErrors \cup
    {[status |-> "ok", msg |-> "", js |-> [code |-> "NoRoute"]]} \cup
    {[status |-> "ok", msg |-> "", js |-> [code |-> "Ok", routes |-> l]] :
        l \in SeqsUpTo(RouteCatalog, MaxRoutes)}

------------------------------------------------------------------------------
(* Helper functions of the script *)

geocode_request(place) ==
    [svc |-> "nominatim", query |-> place, limit |-> 1,
     headers |-> HEADERS, timeout |-> 15]

\* geocode whose message leaves the place out
geocode_noplace(place, http) ==
    IF http.status = "raise" THEN Raise("RequestError", http.msg)
    ELSE IF http.js = <<>> THEN Raise("ValueError", "Place not found")
    ELSE Return(<<http.js[1].lat, http.js[1].lon>>)

geocode(place, http) ==
    IF http.status = "raise" THEN Raise("RequestError", http.msg)
    ELSE IF http.js = <<>> THEN Raise("ValueError", "Place not found: " \o place)
    ELSE Return(<<http.js[1].lat, http.js[1].lon>>)

\* coords of the URL: longitude first
fetch_routes_request(start, end) ==
    [svc |-> "osrm",
     query |-> FloatRepr(start[2]) \o "," \o FloatRepr(start[1]) \o ";"
               \o FloatRepr(end[2]) \o "," \o FloatRepr(end[1]),
     limit |-> 0, headers |-> NoHeaders, timeout |-> 20]

\* js.get("routes") is falsy: key absent or empty list
NoRoutes(js) == "routes" \notin DOMAIN js \/ js.routes = <<>>

\* fetch_routes ranking the routes itself: the shortest one is best
fetch_routes_shortest(start, end, http) ==
    IF http.status = "raise" THEN Raise("RequestError", http.msg)
    ELSE IF NoRoutes(http.js) THEN Raise("ValueError", "No routes found from OSRM")
    ELSE LET routes == http.js.routes
             b == CHOOSE x \in 1..Len(routes) :
                      \A y \in 1..Len(routes) :
                          /\ routes[x].distance <= routes[y].distance
                          /\ routes[x].distance = routes[y].distance => x <= y
         IN  Return(<<routes[b],
                      IF Len(routes) > 1 THEN routes[IF b = 1 THEN 2 ELSE 1]
                      ELSE routes[1]>>)

\* fetch_routes returning an unbound pair instead of raising
fetch_routes_none(start, end, http) ==
    IF http.status = "raise" THEN Raise("RequestError", http.msg)
    ELSE IF NoRoutes(http.js) THEN Return(<<NoneRoute, NoneRoute>>)
    ELSE LET routes == http.js.routes
         IN  Return(<<routes[1], IF Len(routes) > 1 THEN routes[2] ELSE routes[1]>>)

fetch_routes(start, end, http) ==
    IF http.status = "raise" THEN Raise("RequestError", http.msg)
    ELSE IF NoRoutes(http.js) THEN Raise("ValueError", "No routes found from OSRM")
    ELSE LET routes == http.js.routes
         IN  Return(<<routes[1], IF Len(routes) > 1 THEN routes[2] ELSE routes[1]>>)

------------------------------------------------------------------------------
(* Streamlit UI: state of one session *)

VARIABLES
    pc,           \* where the script run stands
    origin,       \* text of the "Origin" input
    destination,  \* text of the "Destination" input
    start,        \* local start: (lat, lon), <<>> while unbound
    end,          \* local end
    best,         \* local best: a route, NoneRoute while unbound
    alt,          \* local alt
    requests,     \* outbound HTTP requests of this run, with their replies
    display,      \* widgets the run has put on the page, in order
    failure,      \* the exception the run raised, if any
    steps,        \* pipeline steps this run has executed, in order
    arg,          \* argument of a stand-alone call of a metrics function
    ret           \* its result

vars == <<pc, origin, destination, start, end, best, alt, requests, display,
          failure, steps, arg, ret>>

NoFailure == Return(<<>>)

\* widgets
st_error(text) ==
    [kind |-> "error", label |-> "", value |-> text, delta |-> "", help |-> ""]
st_success(text) ==
    [kind |-> "success", label |-> "", value |-> text, delta |-> "", help |-> ""]
st_markdown(text) ==
    [kind |-> "markdown", label |-> "", value |-> text, delta |-> "", help |-> ""]
st_metric(label, value, delta, help) ==
    [kind |-> "metric", label |-> label, value |-> value, delta |-> delta, help |-> help]
st_folium(m) == [kind |-> "st_folium", map |-> m]

\* a handler that hides the message
except_handler_generic(e) == st_error("Something went wrong")

\* except Exception as e: st.error(str(e))
except_handler(e) == st_error(e.msg)

\* a pipeline that carries on after a failed call
Continue_always(r, next) == next

\* the statement a call is followed by: the next one, or the end of the
\* try block when the call raised
Continue(r, next) == IF r.raised THEN "done" ELSE next

\* savings that are never shown negative
saved_clamped(old, opt) == IF old - opt < 0 THEN 0 ELSE old - opt

\* savings: old minus optimized
saved(old, opt) == old - opt

\* folium.Map with its two overlays, two markers and the layer control;
\* the centre is the float midpoint of start and end, kept as a term
folium_map(s, e, b, a) ==
    [location |-> [mid_lat |-> <<s[1], e[1]>>, mid_lon |-> <<s[2], e[2]>>],
     zoom_start |-> 10,
     layers |-> << [name |-> "Old route", geometry |-> b.geometry,
                    color |-> "red", dash |-> "",
                    tooltip |-> "Old: " \o FloatRepr(km(b.distance)) \o " km, "
                                \o hmin(b.duration)],
                   [name |-> "Optimized route", geometry |-> a.geometry,
                    color |-> "blue", dash |-> "6 6",
                    tooltip |-> "Opt: " \o FloatRepr(km(a.distance)) \o " km, "
                                \o hmin(a.duration)] >>,
     markers |-> << [at |-> s, tooltip |-> "Start"], [at |-> e, tooltip |-> "End"] >>,
     layer_control |-> TRUE]

\* the widgets of a successful run.  The currency sign is written "Rs",
\* CO2 without subscript.  The delta of the distance metric is a float
\* subtraction formatted with ":+", kept as the term of its operands.
render(s, e, b, a) ==
    LET best_km == km(b.distance)
        alt_km  == km(a.distance)
        bm      == calc_metrics(best_km)
        am      == calc_metrics(alt_km)
    IN  << st_folium(folium_map(s, e, b, a)),
           st_markdown("### Route metrics"),
           st_metric("Old route", FloatRepr(best_km) \o " km", "", hmin(b.duration)),
           st_metric("CO2", ToString(bm[1]) \o " g", "", ""),
           st_metric("Cost", "Rs" \o ToString(bm[2]), "", ""),
           st_metric("Optimized", FloatRepr(alt_km) \o " km",
                     "float(" \o FloatRepr(best_km) \o "-" \o FloatRepr(alt_km) \o "):+ km",
                     hmin(a.duration)),
           st_metric("CO2", ToString(am[1]) \o " g",
                     SignedStr(saved(bm[1], am[1])) \o " g", ""),
           st_metric("Cost", "Rs" \o ToString(am[2]),
                     "Rs" \o SignedStr(saved(bm[2], am[2])), ""),
           st_success("**CO2 saved:** " \o ToString(saved(bm[1], am[1])) \o " g"),
           st_success("**Rs saved:** " \o ToString(saved(bm[2], am[2]))) >>

Logged(req, http) == [req |-> req, reply |-> http]

------------------------------------------------------------------------------
(* Actions *)

\* a script run starts with nothing on the page and no local bound
Fresh ==
    /\ start' = <<>> /\ end' = <<>>
    /\ best' = NoneRoute /\ alt' = NoneRoute
    /\ requests' = <<>> /\ display' = <<>>
    /\ failure' = NoFailure /\ steps' = <<>>

\* the user edits a text input: the script reruns with go = False
EditInput ==
    /\ pc \in {"idle", "done"}
    /\ \E o \in Places, d \in Places :
          /\ <<o, d>> # <<origin, destination>>
          /\ origin' = o /\ destination' = d
    /\ pc' = "idle"
    /\ Fresh
    /\ UNCHANGED <<arg, ret>>

\* the user presses "Get Routes": the script reruns with go = True
PressGo ==
    /\ pc \in {"idle", "done"}
    /\ pc' = "geocode_origin"
    /\ Fresh
    /\ UNCHANGED <<origin, destination, arg, ret>>

\* start = geocode(origin)
GeocodeOrigin ==
    /\ pc = "geocode_origin"
    /\ \E http \in GeoReplies :
          LET r == geocode(origin, http)
          IN  /\ requests' = Append(requests, Logged(geocode_request(origin), http))
              /\ steps' = Append(steps, "geocode_origin")
              /\ pc' = Continue(r, "geocode_destination")
              /\ IF r.raised
                 THEN /\ failure' = r
                      /\ display' = Append(display, except_handler(r))
                      /\ UNCHANGED start
                 ELSE /\ start' = r.value
                      /\ UNCHANGED <<failure, display>>
    /\ UNCHANGED <<origin, destination, end, best, alt, arg, ret>>

\* end = geocode(destination)
GeocodeDestination ==
    /\ pc = "geocode_destination"
    /\ \E http \in GeoReplies :
          LET r == geocode(destination, http)
          IN  /\ requests' = Append(requests, Logged(geocode_request(destination), http))
              /\ steps' = Append(steps, "geocode_destination")
              /\ pc' = Continue(r, "fetch_routes")
              /\ IF r.raised
                 THEN /\ failure' = r
                      /\ display' = Append(display, except_handler(r))
                      /\ UNCHANGED end
                 ELSE /\ end' = r.value
                      /\ UNCHANGED <<failure, display>>
    /\ UNCHANGED <<origin, destination, start, best, alt, arg, ret>>

\* best, alt = fetch_routes(start, end)
FetchRoutes ==
    /\ pc = "fetch_routes"
    /\ \E http \in RouteReplies :
          LET r == fetch_routes(start, end, http)
          IN  /\ requests' = Append(requests, Logged(fetch_routes_request(start, end), http))
              /\ steps' = Append(steps, "fetch_routes")
              /\ pc' = Continue(r, "render")
              /\ IF r.raised
                 THEN /\ failure' = r
                      /\ display' = Append(display, except_handler(r))
                      /\ UNCHANGED <<best, alt>>
                 ELSE /\ best' = r.value[1] /\ alt' = r.value[2]
                      /\ UNCHANGED <<failure, display>>
    /\ UNCHANGED <<origin, destination, start, end, arg, ret>>

\* metrics, map, st_folium and the three metric columns
Render ==
    /\ pc = "render"
    /\ steps' = steps \o <<"metrics", "map", "display">>
    /\ display' = display \o render(start, end, best, alt)
    /\ pc' = "done"
    /\ UNCHANGED <<origin, destination, start, end, best, alt, requests, failure,
                   arg, ret>>

Init ==
    /\ pc = "idle"
    /\ origin = DefaultOrigin /\ destination = DefaultDestination
    /\ start = <<>> /\ end = <<>>
    /\ best = NoneRoute /\ alt = NoneRoute
    /\ requests = <<>> /\ display = <<>>
    /\ failure = NoFailure /\ steps = <<>>
    /\ arg = 0 /\ ret = ""

Next ==
    \/ EditInput
    \/ PressGo
    \/ GeocodeOrigin
    \/ GeocodeDestination
    \/ FetchRoutes
    \/ Render

Spec == Init /\ [][Next]_vars

------------------------------------------------------------------------------
(* Stand-alone calls of the metrics functions *)

NoSession ==
    /\ origin = DefaultOrigin /\ destination = DefaultDestination
    /\ start = <<>> /\ end = <<>>
    /\ best = NoneRoute /\ alt = NoneRoute
    /\ requests = <<>> /\ display = <<>>
    /\ failure = NoFailure /\ steps = <<>>

SessionUnchanged ==
    UNCHANGED <<origin, destination, start, end, best, alt, requests, display,
                failure, steps>>

InitHmin == pc = "call_hmin" /\ arg \in 0..MaxSeconds /\ ret = "" /\ NoSession

Call_hmin ==
    /\ pc = "call_hmin"
    /\ ret' = hmin(arg)
    /\ pc' = "ret_hmin"
    /\ UNCHANGED arg
    /\ SessionUnchanged

NextHmin == Call_hmin

SpecHmin == InitHmin /\ [][NextHmin]_vars

InitCalc == pc = "call_calc_metrics" /\ arg \in 0..MaxCentiKm /\ ret = <<>> /\ NoSession

Call_calc_metrics ==
    /\ pc = "call_calc_metrics"
    /\ ret' = calc_metrics(arg)
    /\ pc' = "ret_calc_metrics"
    /\ UNCHANGED arg
    /\ SessionUnchanged

NextCalc == Call_calc_metrics

SpecCalc == InitCalc /\ [][NextCalc]_vars

------------------------------------------------------------------------------
(* Properties *)

\* the reply of a logged request makes the call fail
ReplyFails(l) ==
    \/ l.reply.status = "raise"
    \/ l.req.svc = "nominatim" /\ l.reply.js = <<>>
    \/ l.req.svc = "osrm" /\ ("routes" \notin DOMAIN l.reply.js \/ l.reply.js.routes = <<>>)

\* the message of the failure a failing logged request produces
FailureText(l) ==
    IF l.reply.status = "raise" THEN l.reply.msg
    ELSE IF l.req.svc = "nominatim" THEN "Place not found: " \o l.req.query
    ELSE "No routes found from OSRM"

Shows(kinds) == \E i \in 1..Len(display) : display[i].kind \in kinds

\* C1: when geocode(origin), geocode(destination) or fetch_routes fails, no
\* later pipeline step runs, neither map nor metric is displayed, and exactly
\* one error banner with the failure's message text is shown.
C1_FailureAborts ==
    \A i \in 1..Len(requests) :
        ReplyFails(requests[i]) =>
            /\ i = Len(requests)
            /\ Len(steps) = i
            /\ steps[i] \in {"geocode_origin", "geocode_destination", "fetch_routes"}
            /\ pc = "done"
            /\ ~Shows({"st_folium", "metric", "success", "markdown"})
            /\ Len(display) = 1
            /\ display[1].kind = "error"
            /\ display[1].value = FailureText(requests[i])

\* the routing call failed after two successful lookups, and the run ended
\* with the banner as the only widget
C1_Witness ==
    /\ pc = "done"
    /\ Len(requests) = 3
    /\ ReplyFails(requests[3])
    /\ Len(display) = 1
    /\ display[1].kind = "error"

\* C2: within one trigger the outbound calls are geocode(origin), then
\* geocode(destination), then the routing call, each at most once; a call is
\* issued only after the calls before it succeeded, and map and metrics are
\* displayed only after the routing call succeeded.
C2_CallOrder ==
    /\ Len(requests) <= 3
    /\ Len(requests) >= 1 =>
          requests[1].req.svc = "nominatim" /\ requests[1].req.query = origin
    /\ Len(requests) >= 2 =>
          /\ requests[2].req.svc = "nominatim" /\ requests[2].req.query = destination
          /\ ~ReplyFails(requests[1])
    /\ Len(requests) >= 3 =>
          /\ requests[3].req.svc = "osrm"
          /\ ~ReplyFails(requests[1]) /\ ~ReplyFails(requests[2])
    /\ Shows({"st_folium", "metric", "success"}) =>
          Len(requests) = 3 /\ ~ReplyFails(requests[3])

\* a run that made all three calls and displayed the map
C2_Witness ==
    /\ pc = "done"
    /\ Len(requests) = 3
    /\ Shows({"st_folium"})

\* the routes list the routing call of this run got back
RoutesGot == requests[3].reply.js.routes

FetchReturned == Len(requests) = 3 /\ ~ReplyFails(requests[3])

\* C3: for a non-empty routes list fetch_routes returns (routes[0], routes[1])
\* when there are at least two routes and (routes[0], routes[0]) when there is
\* one; distance and duration play no part in the choice.
C3_FirstTwo ==
    FetchReturned =>
        /\ best = RoutesGot[1]
        /\ Len(RoutesGot) >= 2 => alt = RoutesGot[2]
        /\ Len(RoutesGot) = 1 => alt = RoutesGot[1] /\ alt = best

\* the second listed route is both shorter and faster, and is still alt
C3_Witness ==
    /\ FetchReturned
    /\ Len(RoutesGot) >= 2
    /\ RoutesGot[2].distance < RoutesGot[1].distance
    /\ RoutesGot[2].duration < RoutesGot[1].duration
    /\ best = RoutesGot[1]
    /\ alt = RoutesGot[2]

EmptyLookup(l) ==
    l.req.svc = "nominatim" /\ l.reply.status = "ok" /\ l.reply.js = <<>>

\* C4: an empty result list makes geocode(place) fail with the message
\* "Place not found: <place>" and bind no coordinate; the displayed error
\* names the origin when the origin lookup was empty, and the destination
\* when the origin resolved and the destination lookup was empty.
C4_NotFoundNamesPlace ==
    /\ (Len(requests) >= 1 /\ EmptyLookup(requests[1])) =>
          /\ failure.raised /\ failure.kind = "ValueError"
          /\ failure.msg = "Place not found: " \o origin
          /\ start = <<>>
          /\ display = <<[kind |-> "error", label |-> "", delta |-> "", help |-> "",
                          value |-> "Place not found: " \o origin]>>
    /\ (Len(requests) >= 2 /\ EmptyLookup(requests[2])) =>
          /\ failure.raised /\ failure.kind = "ValueError"
          /\ failure.msg = "Place not found: " \o destination
          /\ start # <<>> /\ end = <<>>
          /\ display = <<[kind |-> "error", label |-> "", delta |-> "", help |-> "",
                          value |-> "Place not found: " \o destination]>>

\* the origin resolved, the destination (another text) was not found
C4_Witness ==
    /\ Len(requests) = 2
    /\ EmptyLookup(requests[2])
    /\ origin # destination
    /\ start # <<>>

NoRoutesReply(l) ==
    /\ l.req.svc = "osrm" /\ l.reply.status = "ok"
    /\ ("routes" \notin DOMAIN l.reply.js \/ l.reply.js.routes = <<>>)

\* C5: a routing response with zero routes (empty or absent list) makes
\* fetch_routes fail with "No routes found from OSRM"; no route pair is bound.
C5_NoRouteRaises ==
    (Len(requests) = 3 /\ NoRoutesReply(requests[3])) =>
        /\ failure.raised /\ failure.kind = "ValueError"
        /\ failure.msg = "No routes found from OSRM"
        /\ best = NoneRoute /\ alt = NoneRoute
        /\ pc = "done"
        /\ ~Shows({"st_folium", "metric", "success"})

\* the service answered with an empty routes list
C5_Witness ==
    /\ Len(requests) = 3
    /\ requests[3].reply.status = "ok"
    /\ "routes" \in DOMAIN requests[3].reply.js
    /\ requests[3].reply.js.routes = <<>>
    /\ failure.raised

\* C6: every outbound HTTP request carries the client-identification header.
C6_AllRequestsIdentified ==
    \A i \in 1..Len(requests) :
        /\ "User-Agent" \in DOMAIN requests[i].req.headers
        /\ requests[i].req.headers["User-Agent"] = "streamlit-carbon-demo"

Succeeded == pc = "done" /\ FetchReturned

Scenario ==
    /\ Succeeded
    /\ Len(RoutesGot) = 2
    /\ RoutesGot[1].distance = 12000 /\ RoutesGot[1].duration = 1500
    /\ RoutesGot[2].distance = 15000 /\ RoutesGot[2].duration = 1800

\* C7: with routes of 12000 m / 1500 s and 15000 m / 1800 s the display shows
\* best = 12.0 km, "0 h 25 min", 1800 g, 96 and alternative = 15.0 km,
\* "0 h 30 min", 2250 g, 120, savings -450 g and -24; in every successful run
\* the displayed savings are best_co2 - alt_co2 and best_cost - alt_cost.
C7_EndToEnd ==
    /\ Scenario =>
          /\ display[3].value = "12.0 km" /\ display[3].help = "0 h 25 min"
          /\ display[4].value = "1800 g"
          /\ display[5].value = "Rs96"
          /\ display[6].value = "15.0 km" /\ display[6].help = "0 h 30 min"
          /\ display[7].value = "2250 g" /\ display[7].delta = "-450 g"
          /\ display[8].value = "Rs120" /\ display[8].delta = "Rs-24"
          /\ display[9].value = "**CO2 saved:** -450 g"
          /\ display[10].value = "**Rs saved:** -24"
    /\ Succeeded =>
          LET bm == calc_metrics(km(best.distance))
              am == calc_metrics(km(alt.distance))
          IN  /\ Len(display) = 10
              /\ display[4].value = ToString(bm[1]) \o " g"
              /\ display[7].value = ToString(am[1]) \o " g"
              /\ display[9].value = "**CO2 saved:** " \o ToString(bm[1] - am[1]) \o " g"
              /\ display[10].value = "**Rs saved:** " \o ToString(bm[2] - am[2])

\* the scenario has run and the negative saving is on the page
C7_Witness ==
    /\ Scenario
    /\ display[9].kind = "success"
    /\ display[9].value = "**CO2 saved:** -450 g"

Abs(n) == IF n < 0 THEN -n ELSE n

HM(h, m) == ToString(h) \o " h " \o ToString(m) \o " min"

\* C8: hmin(seconds) is "H h M min" with H = floor(seconds/3600) and M the
\* remainder in minutes rounded to a nearest integer, 0 <= M <= 60; M = 60 is
\* not carried into H.  hmin(0) = "0 h 0 min", hmin(3600) = "1 h 0 min",
\* hmin(90) = "0 h 2 min".
C8_HoursMinutes ==
    pc = "ret_hmin" =>
        LET r == arg % 3600
        IN  /\ \E M \in 0..60 : Abs(60 * M - r) <= 30 /\ ret = HM(arg \div 3600, M)
            /\ r > 3570 => ret = HM(arg \div 3600, 60)
            /\ arg = 0 => ret = "0 h 0 min"
            /\ arg = 3600 => ret = "1 h 0 min"
            /\ arg = 90 => ret = "0 h 2 min"

\* one second short of two hours: 60 minutes, hour not incremented
C8_Witness == pc = "ret_hmin" /\ arg = 7199 /\ ret = "1 h 60 min"

\* C10: a remainder of exactly half a minute is rounded to the even minute:
\* hmin(30) = "0 h 0 min", hmin(90) = "0 h 2 min", hmin(150) = "0 h 2 min";
\* "H h 60 min" is produced exactly for seconds mod 3600 in 3570..3599.
C10_HalfToEven ==
    pc = "ret_hmin" =>
        LET r  == arg % 3600
            lo == (r - 30) \div 60
        IN  /\ arg % 60 = 30 =>
                  ret = HM(arg \div 3600, IF lo % 2 = 0 THEN lo ELSE lo + 1)
            /\ arg = 30 => ret = "0 h 0 min"
            /\ arg = 90 => ret = "0 h 2 min"
            /\ arg = 150 => ret = "0 h 2 min"
            /\ (ret = HM(arg \div 3600, 60)) <=> (r \in 3570..3599)

\* two and a half minutes give two minutes
C10_Witness == pc = "ret_hmin" /\ arg = 150 /\ ret = "0 h 2 min"

\* C9: for distance_km = arg/100, calc_metrics returns floor(distance_km * 150)
\* and floor(distance_km * 8); both are non-negative and non-decreasing in
\* the distance.
C9_FloorOfProduct ==
    pc = "ret_calc_metrics" =>
        /\ ret[1] = (arg * 150) \div 100
        /\ ret[2] = (arg * 8) \div 100
        /\ ret[1] >= 0 /\ ret[2] >= 0
        /\ arg > 0 => /\ calc_metrics(arg - 1)[1] <= ret[1]
                      /\ calc_metrics(arg - 1)[2] <= ret[2]

====
